---- MODULE Spec2Model ----
(***************************************************************************)
(* KubeServe model registry and deployment orchestration.                  *)
(*                                                                         *)
(* The state is the relational store (models, model_versions, deployments  *)
(* with their autoincrement sequences), the wall clock that names          *)
(* deployments, the Helm releases of the cluster, and one record per       *)
(* request in flight.  Every `await` on the database and every blocking    *)
(* Helm call of a service method is one step, so requests served by        *)
(* different workers interleave between those steps.                       *)
(***************************************************************************)
EXTENDS Integers, FiniteSets, Sequences, TLC

(* ------------------------------ bounds -------------------------------- *)
\* rows the models sequence may hand out
MaxModels == 1
\* rows the model_versions sequence may hand out
MaxVersions == 2
\* rows the deployments sequence may hand out
MaxDeployments == 2
\* seconds the clock may advance
MaxTime == 1
\* rows the users sequence may hand out to registrations
MaxUsers == 2

\* request slots (workers serving one request at a time)
Slots == {1, 2}
\* authenticated user ids
Users == {1, 2}
\* version tags a request may carry
Tags == {"v1", "V1"}
\* s3_path values a request may carry
S3Inputs == {"", "s3://models/m.joblib"}
\* e-mail addresses a registration may carry
Emails == {"test@example.com", "test2@example.com"}
\* replica counts a request may carry (DeploymentBase: 1 <= replicas <= 10)
ReplicaInputs == {1}

(* --------------------------- program constants ------------------------ *)
BUILDING == "Building"
READY == "Ready"
FAILED == "Failed"
ModelVersionStatus == {BUILDING, READY, FAILED}

HTTP_200_OK == 200
HTTP_201_CREATED == 201
HTTP_204_NO_CONTENT == 204
HTTP_400_BAD_REQUEST == 400
HTTP_403_FORBIDDEN == 403
HTTP_404_NOT_FOUND == 404
HTTP_409_CONFLICT == 409
HTTP_500_INTERNAL_SERVER_ERROR == 500

\* the settings the deployment tests run under
INGRESS_HOST == "localhost"
INGRESS_BASE_PATH == "/api/v1/predict"

VARIABLES
    models,            \* models table: id -> [user_id]
    versions,          \* model_versions table: id -> [model_id, version_tag, s3_path, status]
    deployments,       \* deployments table: id -> [version_id, k8s_service_name, url, replicas]
    nextModelId,       \* models.id sequence
    nextVersionId,     \* model_versions.id sequence
    nextDeploymentId,  \* deployments.id sequence
    now,               \* int(time.time())
    releases,          \* Helm releases in the cluster: <<namespace, release_name>>
    ingressConfigured, \* whether the settings object carries INGRESS_HOST / INGRESS_BASE_PATH
    chartExists,       \* whether charts/model-serving is on disk (self.chart_path.exists())
    users,             \* users table: id -> [email]
    nextUserId,        \* users.id sequence
    namespaces,        \* namespaces of the cluster
    quotas,            \* namespaces that hold the ResourceQuota user-resource-quota
    policies,          \* namespaces that hold the NetworkPolicy deny-all-egress-allow-minio-pypi
    req                \* per slot: the request being served

vars == <<models, versions, deployments, nextModelId, nextVersionId,
          nextDeploymentId, now, releases, ingressConfigured, chartExists,
          users, nextUserId, namespaces, quotas, policies, req>>

db == <<models, versions, deployments>>
seqs == <<nextModelId, nextVersionId, nextDeploymentId>>
env == <<ingressConfigured, chartExists>>
accounts == <<users, nextUserId>>
tenants == <<namespaces, quotas, policies>>

(* ------------------------------ helpers -------------------------------- *)
\* url is nullable
NULL == "NULL"

NoVer == [id |-> 0, model_id |-> 0, status |-> "", s3_path |-> ""]
NoDep == [id |-> 0, version_id |-> 0, k8s_service_name |-> ""]

Idle == [op |-> "none", user |-> 0, id |-> 0, tag |-> "", s3 |-> "", st |-> "",
         replicas |-> 0, pc |-> "done", ver |-> NoVer, dep |-> NoDep,
         result |-> 0, data |-> {}, wrote |-> FALSE, helm |-> "none",
         cmd |-> FALSE, url |-> NULL, api |-> 0,
         calls |-> 0, cmds |-> 0, args |-> <<"", "">>, stderr |-> ""]

\* a table without one row
Without(table, id) == [i \in DOMAIN table \ {id} |-> table[i]]

\* f"user-{user_id}"
Namespace(user_id) == "user-" \o ToString(user_id)

\* f"model-{deployment_data.version_id}-{int(time.time())}"
ServiceName(version_id, t) == "model-" \o ToString(version_id) \o "-" \o ToString(t)

\* faulty variant of DeploymentUrl: the deployment id is left out of the path
DeploymentUrlNoId(deployment_id) ==
    "http://" \o INGRESS_HOST \o ":30080" \o INGRESS_BASE_PATH

\* f"http://{settings.INGRESS_HOST}:30080{settings.INGRESS_BASE_PATH}/{deployment.id}"
DeploymentUrl(deployment_id) ==
    "http://" \o INGRESS_HOST \o ":30080" \o INGRESS_BASE_PATH \o "/" \o ToString(deployment_id)

\* faulty variant of ModelGetById: the user_id filter is left out of the query
ModelGetByIdAnyUser(model_id, user_id) == model_id \in DOMAIN models

\* select(Model).where(Model.id == model_id, Model.user_id == user_id)
ModelGetById(model_id, user_id) ==
    model_id \in DOMAIN models /\ models[model_id].user_id = user_id

\* select(ModelVersion).where(model_id == .., version_tag == ..): the matching rows
VersionsByModelAndTag(model_id, version_tag) ==
    {v \in DOMAIN versions : versions[v].model_id = model_id
                             /\ versions[v].version_tag = version_tag}

\* select(ModelVersion).where(ModelVersion.model_id == model_id)
VersionsByModelId(model_id) == {v \in DOMAIN versions : versions[v].model_id = model_id}

\* select(Deployment).where(Deployment.version_id == version_id)
DeploymentsByVersionId(version_id) ==
    {d \in DOMAIN deployments : deployments[d].version_id = version_id}

\* the session's copy of a loaded ModelVersion row
LoadVersion(version_id) ==
    [id |-> version_id, model_id |-> versions[version_id].model_id,
     status |-> versions[version_id].status, s3_path |-> versions[version_id].s3_path]

\* the same for the operations that read nothing but version.model_id afterwards
LoadVersionKey(version_id) ==
    [id |-> version_id, model_id |-> versions[version_id].model_id,
     status |-> "", s3_path |-> ""]

\* the session's copy of a loaded Deployment row
LoadDeployment(deployment_id) ==
    [id |-> deployment_id, version_id |-> deployments[deployment_id].version_id,
     k8s_service_name |-> deployments[deployment_id].k8s_service_name]

\* a request ends: the response, and what the request did on the way
Respond(r, code, data) ==
    [op |-> req[r].op, user |-> req[r].user, id |-> req[r].id, tag |-> "", s3 |-> "",
     st |-> "", replicas |-> 0, pc |-> "done", ver |-> NoVer, dep |-> req[r].dep,
     result |-> code, data |-> data, wrote |-> req[r].wrote, helm |-> req[r].helm,
     cmd |-> req[r].cmd, url |-> req[r].url, api |-> req[r].api,
     calls |-> req[r].calls, cmds |-> req[r].cmds, args |-> req[r].args,
     stderr |-> req[r].stderr]

(* ------------------------------ initial state -------------------------- *)
\* the two users every request is authenticated as
RegisteredUsers ==
    (1 :> [email |-> "test@example.com"]) @@ (2 :> [email |-> "test2@example.com"])

\* the empty registry of two registered users whose tenant setup has succeeded
Init ==
    /\ models = <<>>
    /\ versions = <<>>
    /\ deployments = <<>>
    /\ nextModelId = 1
    /\ nextVersionId = 1
    /\ nextDeploymentId = 1
    /\ now = 0
    /\ releases = {}
    /\ ingressConfigured \in BOOLEAN
    /\ chartExists = TRUE
    /\ users = RegisteredUsers
    /\ nextUserId = 3
    /\ namespaces = {Namespace(u) : u \in Users}
    /\ quotas = {Namespace(u) : u \in Users}
    /\ policies = {Namespace(u) : u \in Users}
    /\ req = [r \in Slots |-> Idle]

\* time.time() advances
Tick ==
    /\ now < MaxTime
    /\ now' = now + 1
    /\ UNCHANGED <<db, seqs, releases, env, accounts, tenants, req>>

(* ------------------------------ ModelService --------------------------- *)
\* POST /models
CreateModel(r) ==
    /\ req[r].pc = "done"
    /\ nextModelId <= MaxModels
    /\ \E u \in Users :
         /\ models' = (nextModelId :> [user_id |-> u]) @@ models
         /\ req' = [req EXCEPT ![r] =
                [Idle EXCEPT !.op = "create_model", !.user = u, !.id = nextModelId,
                             !.result = HTTP_201_CREATED,
                             !.data = {<<"model", nextModelId>>}, !.wrote = TRUE]]
    /\ nextModelId' = nextModelId + 1
    /\ UNCHANGED <<versions, deployments, nextVersionId, nextDeploymentId, now,
                   releases, env, accounts, tenants>>

\* GET /models/{model_id}
GetModel(r) ==
    /\ req[r].pc = "done"
    /\ \E u \in Users, m \in 1..MaxModels :
         req' = [req EXCEPT ![r] =
             [Idle EXCEPT !.op = "get_model", !.user = u, !.id = m,
                          !.result = IF ModelGetById(m, u) THEN HTTP_200_OK
                                     ELSE HTTP_404_NOT_FOUND,
                          !.data = IF ModelGetById(m, u) THEN {<<"model", m>>} ELSE {}]]
    /\ UNCHANGED <<db, seqs, now, releases, env, accounts, tenants>>

\* DELETE /models/{model_id}: repository.get_by_id(model_id, user_id)
DeleteModelLookup(r) ==
    /\ req[r].pc = "done"
    /\ \E u \in Users, m \in 1..MaxModels :
         req' = [req EXCEPT ![r] =
             IF ModelGetById(m, u)
             THEN [Idle EXCEPT !.op = "delete_model", !.user = u, !.id = m,
                               !.pc = "dm_delete"]
             ELSE [Idle EXCEPT !.op = "delete_model", !.user = u, !.id = m,
                               !.result = HTTP_404_NOT_FOUND]]
    /\ UNCHANGED <<db, seqs, now, releases, env, accounts, tenants>>

\* delete_model: repository.delete(model), cascading to versions and deployments
DeleteModelCommit(r) ==
    /\ req[r].pc = "dm_delete"
    /\ LET gone == VersionsByModelId(req[r].id) IN
         /\ models' = Without(models, req[r].id)
         /\ versions' = [v \in DOMAIN versions \ gone |-> versions[v]]
         /\ deployments' = [d \in {x \in DOMAIN deployments :
                                     deployments[x].version_id \notin gone}
                              |-> deployments[d]]
    /\ req' = [req EXCEPT ![r] =
           [Respond(r, HTTP_204_NO_CONTENT, {}) EXCEPT !.wrote = TRUE]]
    /\ UNCHANGED <<seqs, now, releases, env, accounts, tenants>>

(* --------------------------- ModelVersionService ----------------------- *)
\* POST /models/{model_id}/versions: model_repository.get_by_id(model_id, user_id)
CreateVersionModelLookup(r) ==
    /\ req[r].pc = "done"
    /\ \E u \in Users, m \in 1..MaxModels, t \in Tags, p \in S3Inputs :
         req' = [req EXCEPT ![r] =
             IF ModelGetById(m, u)
             THEN [Idle EXCEPT !.op = "create_version", !.user = u, !.id = m,
                               !.tag = t, !.s3 = p, !.pc = "cv_tag"]
             ELSE [Idle EXCEPT !.op = "create_version", !.user = u, !.id = m,
                               !.result = HTTP_404_NOT_FOUND]]
    /\ UNCHANGED <<db, seqs, now, releases, env, accounts, tenants>>

\* create_version requests on their way to the INSERT
PendingVersionInserts == Cardinality({r \in Slots : req[r].pc = "cv_insert"})

\* what the duplicate-tag check decides from the rows scalar_one_or_none() sees
TagCheck(rows) ==
    IF rows = {} THEN "free"
    ELSE IF Cardinality(rows) = 1 THEN "exists"
    ELSE "MultipleResultsFound"

\* create_version: repository.get_by_model_and_tag(model_id, version_tag)
CreateVersionTagLookup(r) ==
    /\ req[r].pc = "cv_tag"
    /\ LET seen == TagCheck(VersionsByModelAndTag(req[r].id, req[r].tag)) IN
         /\ seen = "free" => nextVersionId + PendingVersionInserts <= MaxVersions
         /\ req' = [req EXCEPT ![r] =
             IF seen = "free" THEN [req[r] EXCEPT !.pc = "cv_insert"]
             ELSE IF seen = "exists" THEN Respond(r, HTTP_400_BAD_REQUEST, {})
             ELSE Respond(r, HTTP_500_INTERNAL_SERVER_ERROR, {})]
    /\ UNCHANGED <<db, seqs, now, releases, env, accounts, tenants>>

\* faulty variant of VersionInsertAllowed: no foreign key on model_id
VersionInsertAllowedNoFk(model_id, version_tag) == TRUE

\* the constraints of model_versions an INSERT must satisfy: the foreign key on
\* model_id (there is no unique constraint on the tag)
VersionInsertAllowed(model_id, version_tag) == model_id \in DOMAIN models

\* faulty variant of NewVersion: the row starts as READY
NewVersionReady(model_id, version_tag, s3_path) ==
    [model_id |-> model_id, version_tag |-> version_tag, s3_path |-> s3_path,
     status |-> READY]

\* ModelVersion(model_id, version_tag, s3_path, status=ModelVersionStatus.BUILDING)
NewVersion(model_id, version_tag, s3_path) ==
    [model_id |-> model_id, version_tag |-> version_tag, s3_path |-> s3_path,
     status |-> BUILDING]

\* create_version: repository.create(version_data)
CreateVersionInsert(r) ==
    /\ req[r].pc = "cv_insert"
    /\ IF VersionInsertAllowed(req[r].id, req[r].tag)
       THEN /\ versions' = (nextVersionId :> NewVersion(req[r].id, req[r].tag, req[r].s3))
                           @@ versions
            /\ nextVersionId' = nextVersionId + 1
            /\ req' = [req EXCEPT ![r] =
                   [Respond(r, HTTP_201_CREATED, {<<"version", nextVersionId>>})
                      EXCEPT !.wrote = TRUE]]
       ELSE /\ UNCHANGED <<versions, nextVersionId>>
            /\ req' = [req EXCEPT ![r] = Respond(r, HTTP_500_INTERNAL_SERVER_ERROR, {})]
    /\ UNCHANGED <<models, deployments, nextModelId, nextDeploymentId, now, releases,
                   env, accounts, tenants>>

\* the first step of every operation that starts from a version id:
\* version_repository.get_by_id(version_id), 404 when there is no such row
VersionLookup(r, op, u, v, next) ==
    IF v \in DOMAIN versions
    THEN [Idle EXCEPT !.op = op, !.user = u, !.id = v, !.pc = next,
                      !.ver = IF op = "create_deployment" THEN LoadVersion(v)
                              ELSE LoadVersionKey(v)]
    ELSE [Idle EXCEPT !.op = op, !.user = u, !.id = v, !.result = HTTP_404_NOT_FOUND]

\* GET /versions/{version_id}: repository.get_by_id(version_id)
GetVersionLookup(r) ==
    /\ req[r].pc = "done"
    /\ \E u \in Users, v \in 1..MaxVersions :
         req' = [req EXCEPT ![r] = VersionLookup(r, "get_version", u, v, "gv_model")]
    /\ UNCHANGED <<db, seqs, now, releases, env, accounts, tenants>>

\* get_version: model_repository.get_by_id(version.model_id, user_id)
GetVersionModelLookup(r) ==
    /\ req[r].pc = "gv_model"
    /\ req' = [req EXCEPT ![r] =
           IF ModelGetById(req[r].ver.model_id, req[r].user)
           THEN Respond(r, HTTP_200_OK, {<<"version", req[r].ver.id>>})
           ELSE Respond(r, HTTP_403_FORBIDDEN, {})]
    /\ UNCHANGED <<db, seqs, now, releases, env, accounts, tenants>>

\* GET /models/{model_id}/versions: model_repository.get_by_id(model_id, user_id)
GetVersionsModelLookup(r) ==
    /\ req[r].pc = "done"
    /\ \E u \in Users, m \in 1..MaxModels :
         req' = [req EXCEPT ![r] =
             IF ModelGetById(m, u)
             THEN [Idle EXCEPT !.op = "get_versions_by_model", !.user = u, !.id = m,
                               !.pc = "gvm_list"]
             ELSE [Idle EXCEPT !.op = "get_versions_by_model", !.user = u, !.id = m,
                               !.result = HTTP_404_NOT_FOUND]]
    /\ UNCHANGED <<db, seqs, now, releases, env, accounts, tenants>>

\* get_versions_by_model: repository.get_by_model_id(model_id)
GetVersionsList(r) ==
    /\ req[r].pc = "gvm_list"
    /\ req' = [req EXCEPT ![r] =
           Respond(r, HTTP_200_OK, {<<"version", v>> : v \in VersionsByModelId(req[r].id)})]
    /\ UNCHANGED <<db, seqs, now, releases, env, accounts, tenants>>

\* update_version_status names its parameter `status`, which hides fastapi's status
\* module in the body: `status.HTTP_404_NOT_FOUND` and `status.HTTP_403_FORBIDDEN` are
\* attribute reads of a ModelVersionStatus member and raise AttributeError, which
\* the framework answers with 500, whatever code the HTTPException was to carry
UpdateStatusRefusal(code) == HTTP_500_INTERNAL_SERVER_ERROR

\* PATCH /versions/{version_id}/status: repository.get_by_id(version_id)
UpdateStatusLookup(r) ==
    /\ req[r].pc = "done"
    /\ \E u \in Users, v \in 1..MaxVersions, s \in ModelVersionStatus :
         req' = [req EXCEPT ![r] =
             [VersionLookup(r, "update_version_status", u, v, "us_model") EXCEPT
                 !.st = IF v \in DOMAIN versions THEN s ELSE "",
                 !.result = IF v \in DOMAIN versions THEN 0
                            ELSE UpdateStatusRefusal(HTTP_404_NOT_FOUND)]]
    /\ UNCHANGED <<db, seqs, now, releases, env, accounts, tenants>>

\* update_version_status: model_repository.get_by_id(version.model_id, user_id)
UpdateStatusModelLookup(r) ==
    /\ req[r].pc = "us_model"
    /\ req' = [req EXCEPT ![r] =
           IF ModelGetById(req[r].ver.model_id, req[r].user)
           THEN [req[r] EXCEPT !.pc = "us_commit"]
           ELSE Respond(r, UpdateStatusRefusal(HTTP_403_FORBIDDEN), {})]
    /\ UNCHANGED <<db, seqs, now, releases, env, accounts, tenants>>

\* update_version_status: version.status = status; repository.update(version)
UpdateStatusCommit(r) ==
    /\ req[r].pc = "us_commit"
    /\ IF req[r].id \in DOMAIN versions
       THEN /\ versions' = [versions EXCEPT ![req[r].id].status = req[r].st]
            /\ req' = [req EXCEPT ![r] =
                   [Respond(r, HTTP_200_OK, {<<"version", req[r].id>>})
                      EXCEPT !.wrote = TRUE]]
       ELSE /\ UNCHANGED versions
            /\ req' = [req EXCEPT ![r] = Respond(r, HTTP_500_INTERNAL_SERVER_ERROR, {})]
    /\ UNCHANGED <<models, deployments, seqs, now, releases, env, accounts, tenants>>

\* update_version_s3_path (the upload route): repository.get_by_id(version_id)
UpdateS3Lookup(r) ==
    /\ req[r].pc = "done"
    /\ \E u \in Users, v \in 1..MaxVersions, p \in S3Inputs :
         req' = [req EXCEPT ![r] =
             [VersionLookup(r, "update_version_s3_path", u, v, "up_model") EXCEPT
                 !.s3 = IF v \in DOMAIN versions THEN p ELSE ""]]
    /\ UNCHANGED <<db, seqs, now, releases, env, accounts, tenants>>

\* update_version_s3_path: model_repository.get_by_id(version.model_id, user_id)
UpdateS3ModelLookup(r) ==
    /\ req[r].pc = "up_model"
    /\ req' = [req EXCEPT ![r] =
           IF ModelGetById(req[r].ver.model_id, req[r].user)
           THEN [req[r] EXCEPT !.pc = "up_commit"]
           ELSE Respond(r, HTTP_403_FORBIDDEN, {})]
    /\ UNCHANGED <<db, seqs, now, releases, env, accounts, tenants>>

\* update_version_s3_path: version.s3_path = s3_path; repository.update(version)
UpdateS3Commit(r) ==
    /\ req[r].pc = "up_commit"
    /\ IF req[r].id \in DOMAIN versions
       THEN /\ versions' = [versions EXCEPT ![req[r].id].s3_path = req[r].s3]
            /\ req' = [req EXCEPT ![r] =
                   [Respond(r, HTTP_200_OK, {<<"version", req[r].id>>})
                      EXCEPT !.wrote = TRUE]]
       ELSE /\ UNCHANGED versions
            /\ req' = [req EXCEPT ![r] = Respond(r, HTTP_500_INTERNAL_SERVER_ERROR, {})]
    /\ UNCHANGED <<models, deployments, seqs, now, releases, env, accounts, tenants>>

(* ----------------------------- HelmDeploymentService -------------------- *)
\* how a Helm command can end: exit 0, exit non-zero, or TimeoutExpired
HelmOutcomes == {"ok", "error", "timeout"}

\* the releases after `helm install release_name --namespace namespace` ends in outcome o:
\* a command that exits 0 has installed the release, one that exits non-zero has not,
\* and a command killed at the timeout may have done either
AfterInstall(namespace, release_name, o) ==
    IF o = "ok" THEN {releases \cup {<<namespace, release_name>>}}
    ELSE IF o = "error" THEN {releases}
    ELSE {releases, releases \cup {<<namespace, release_name>>}}

\* `helm install` cannot exit 0 for a name still in use in the namespace
InstallOutcomes(namespace, release_name) ==
    IF <<namespace, release_name>> \in releases THEN {"error", "timeout"} ELSE HelmOutcomes

\* `--create-namespace`: the namespaces after `helm install ... --namespace namespace
\* --create-namespace` ends in outcome o; a command that fails or is killed may or may
\* not have created the namespace already
NamespacesAfterInstall(namespace, o) ==
    IF o = "ok" THEN {namespaces \cup {namespace}}
    ELSE {namespaces, namespaces \cup {namespace}}

\* result.returncode of a command that ended in outcome o (none at a timeout: -1)
ReturnCode(o) == IF o = "ok" THEN 0 ELSE IF o = "error" THEN 1 ELSE -1

\* faulty variant of DeployModelRaises: a command killed at the timeout is not raised
DeployModelRaisesNoTimeout(o) == o = "error"

\* deploy_model on a command that ended in outcome o: _run_helm_command re-raises
\* TimeoutExpired, and a non-zero returncode is raised as SubprocessError
DeployModelRaises(o) == o # "ok"

\* deploy_model: url = f"http://{ingress_host}:30080{ingress_path}"
DeployModelUrl(ingress_host, ingress_path) ==
    "http://" \o ingress_host \o ":30080" \o ingress_path

\* the releases after `helm uninstall release_name --namespace namespace` ends in outcome o
AfterUninstall(namespace, release_name, o) ==
    IF o = "ok" THEN {releases \ {<<namespace, release_name>>}}
    ELSE IF o = "error" THEN {releases}
    ELSE {releases, releases \ {<<namespace, release_name>>}}

\* `helm uninstall` cannot exit 0 for a release that is not there
UninstallOutcomes(namespace, release_name) ==
    IF <<namespace, release_name>> \in releases THEN HelmOutcomes ELSE {"error", "timeout"}

\* what helm writes to stderr when it exits non-zero
RELEASE_NOT_FOUND == "Error: release not found"
MAPPING_NOT_FOUND == "Error: resource mapping not found for kind ServiceMonitor"
CLUSTER_UNREACHABLE == "Error: Kubernetes cluster unreachable"

\* the stderr of `helm uninstall` that ends in outcome o: a release that is absent is
\* reported as not found; a release that is present fails to uninstall because the
\* cluster is unreachable or because a kind of its manifest is unknown to the cluster
UninstallStderrs(namespace, release_name, o) ==
    IF o # "error" THEN {""}
    ELSE IF <<namespace, release_name>> \in releases
    THEN {MAPPING_NOT_FOUND, CLUSTER_UNREACHABLE}
    ELSE {RELEASE_NOT_FOUND, CLUSTER_UNREACHABLE}

\* str.lower() on one character
LowerChar(c) ==
    CASE c = "A" -> "a" [] c = "B" -> "b" [] c = "C" -> "c" [] c = "D" -> "d"
      [] c = "E" -> "e" [] c = "F" -> "f" [] c = "G" -> "g" [] c = "H" -> "h"
      [] c = "I" -> "i" [] c = "J" -> "j" [] c = "K" -> "k" [] c = "L" -> "l"
      [] c = "M" -> "m" [] c = "N" -> "n" [] c = "O" -> "o" [] c = "P" -> "p"
      [] c = "Q" -> "q" [] c = "R" -> "r" [] c = "S" -> "s" [] c = "T" -> "t"
      [] c = "U" -> "u" [] c = "V" -> "v" [] c = "W" -> "w" [] c = "X" -> "x"
      [] c = "Y" -> "y" [] c = "Z" -> "z" [] OTHER -> c

\* str.lower()
RECURSIVE Lower(_)
Lower(str) ==
    IF str = "" THEN ""
    ELSE LowerChar(SubSeq(str, 1, 1)) \o Lower(SubSeq(str, 2, Len(str)))

\* sub in str
Contains(str, sub) ==
    \E i \in 1..(Len(str) - Len(sub) + 1) : SubSeq(str, i, i + Len(sub) - 1) = sub

\* undeploy_model on a command that ended in outcome o with this stderr: "returned"
\* or "raised" (TimeoutExpired, or SubprocessError for a non-zero exit whose stderr
\* does not contain "not found")
UndeployModel(o, stderr) ==
    IF o = "timeout" THEN "raised"
    ELSE IF o = "ok" THEN "returned"
    ELSE IF Contains(Lower(stderr), "not found") THEN "returned"
    ELSE "raised"

(* ------------------------------ DeploymentService ---------------------- *)
\* create_deployment requests on their way to the INSERT
PendingDeploymentInserts == Cardinality({r \in Slots : req[r].pc = "cd_insert"})

\* POST /versions/{version_id}/deployments: version_repository.get_by_id(version_id)
CreateDeploymentLookup(r) ==
    /\ req[r].pc = "done"
    /\ \E u \in Users, v \in 1..MaxVersions, n \in ReplicaInputs :
         req' = [req EXCEPT ![r] =
             [VersionLookup(r, "create_deployment", u, v, "cd_model") EXCEPT
                 !.replicas = IF v \in DOMAIN versions THEN n ELSE 0]]
    /\ UNCHANGED <<db, seqs, now, releases, env, accounts, tenants>>

\* faulty variant of DeployAllowed: the s3_path rule is left out
DeployAllowedStatusOnly(ver) == ver.status = READY

\* the business rules on the loaded version: status READY and a non-empty s3_path
DeployAllowed(ver) == ver.status = READY /\ ver.s3_path # ""

\* faulty variant of CreateDeploymentModelLookup: the record is persisted before the
\* business rules are evaluated, so a 400 leaves a row behind
CreateDeploymentModelLookupLateCheck(r) ==
    /\ req[r].pc = "cd_model"
    /\ ModelGetById(req[r].ver.model_id, req[r].user)
          => nextDeploymentId + PendingDeploymentInserts <= MaxDeployments
    /\ IF ~ModelGetById(req[r].ver.model_id, req[r].user)
       THEN /\ req' = [req EXCEPT ![r] = Respond(r, HTTP_403_FORBIDDEN, {})]
            /\ UNCHANGED <<deployments, nextDeploymentId>>
       ELSE IF ~DeployAllowed(req[r].ver)
       THEN /\ deployments' = (nextDeploymentId :>
                                 [version_id |-> req[r].id,
                                  k8s_service_name |-> ServiceName(req[r].id, now),
                                  url |-> NULL, replicas |-> req[r].replicas])
                              @@ deployments
            /\ nextDeploymentId' = nextDeploymentId + 1
            /\ req' = [req EXCEPT ![r] =
                   [Respond(r, HTTP_400_BAD_REQUEST, {}) EXCEPT !.wrote = TRUE]]
       ELSE /\ req' = [req EXCEPT ![r] = [req[r] EXCEPT !.pc = "cd_insert"]]
            /\ UNCHANGED <<deployments, nextDeploymentId>>
    /\ UNCHANGED <<models, versions, nextModelId, nextVersionId, now, releases,
                   env, accounts, tenants>>

\* faulty variant of CreateDeploymentModelLookup: the business rules are evaluated
\* before the ownership of the model
CreateDeploymentModelLookupRulesFirst(r) ==
    /\ req[r].pc = "cd_model"
    /\ (ModelGetById(req[r].ver.model_id, req[r].user) /\ DeployAllowed(req[r].ver))
          => nextDeploymentId + PendingDeploymentInserts <= MaxDeployments
    /\ req' = [req EXCEPT ![r] =
           IF ~DeployAllowed(req[r].ver)
           THEN Respond(r, HTTP_400_BAD_REQUEST, {})
           ELSE IF ~ModelGetById(req[r].ver.model_id, req[r].user)
           THEN Respond(r, HTTP_403_FORBIDDEN, {})
           ELSE [req[r] EXCEPT !.pc = "cd_insert"]]
    /\ UNCHANGED <<db, seqs, now, releases, env, accounts, tenants>>

\* create_deployment: model_repository.get_by_id(version.model_id, user_id),
\* then the checks on the loaded version
CreateDeploymentModelLookup(r) ==
    /\ req[r].pc = "cd_model"
    /\ (ModelGetById(req[r].ver.model_id, req[r].user) /\ DeployAllowed(req[r].ver))
          => nextDeploymentId + PendingDeploymentInserts <= MaxDeployments
    /\ req' = [req EXCEPT ![r] =
           IF ~ModelGetById(req[r].ver.model_id, req[r].user)
           THEN Respond(r, HTTP_403_FORBIDDEN, {})
           ELSE IF ~DeployAllowed(req[r].ver)
           THEN Respond(r, HTTP_400_BAD_REQUEST, {})
           ELSE [req[r] EXCEPT !.pc = "cd_insert"]]
    /\ UNCHANGED <<db, seqs, now, releases, env, accounts, tenants>>

\* faulty variant of DeploymentInsertAllowed: no unique constraint on the name
DeploymentInsertAllowedNoUnique(version_id, k8s_service_name) ==
    version_id \in DOMAIN versions

\* the constraints of deployments an INSERT must satisfy: the foreign key on
\* version_id and UniqueConstraint('k8s_service_name')
DeploymentInsertAllowed(version_id, k8s_service_name) ==
    /\ version_id \in DOMAIN versions
    /\ \A d \in DOMAIN deployments : deployments[d].k8s_service_name # k8s_service_name

\* create_deployment: repository.create(deployment_data)
CreateDeploymentInsert(r) ==
    /\ req[r].pc = "cd_insert"
    /\ LET name == ServiceName(req[r].id, now) IN
         IF DeploymentInsertAllowed(req[r].id, name)
         THEN /\ deployments' = (nextDeploymentId :>
                                   [version_id |-> req[r].id, k8s_service_name |-> name,
                                    url |-> NULL, replicas |-> req[r].replicas])
                                @@ deployments
              /\ nextDeploymentId' = nextDeploymentId + 1
              /\ req' = [req EXCEPT ![r] =
                     [req[r] EXCEPT !.pc = "cd_helm", !.wrote = TRUE,
                                    !.dep = [id |-> nextDeploymentId,
                                             version_id |-> req[r].id,
                                             k8s_service_name |-> name]]]
         ELSE /\ UNCHANGED <<deployments, nextDeploymentId>>
              /\ req' = [req EXCEPT ![r] = Respond(r, HTTP_500_INTERNAL_SERVER_ERROR, {})]
    /\ UNCHANGED <<models, versions, nextModelId, nextVersionId, now, releases,
                   env, accounts, tenants>>

\* faulty variant of AfterDeploy: a failed apply is tried again
AfterDeployRetry(raised) == IF raised THEN "cd_helm" ELSE "cd_update"

\* create_deployment, after deploy_model: the url write-back when it returned, the
\* except block when it raised
AfterDeploy(raised) == IF raised THEN "cd_rollback" ELSE "cd_update"

\* create_deployment: namespace = f"user-{user_id}"; release_name =
\* deployment.k8s_service_name: the <<namespace, release_name>> handed to deploy_model
DeployArgs(user_id, dep) == <<Namespace(user_id), dep.k8s_service_name>>

\* create_deployment: helm_service.deploy_model(...) inside the try block.  Reading
\* settings.INGRESS_HOST raises before the call when the settings carry no such field.
\* deploy_model raises ValueError before any command when the chart is not on disk,
\* SubprocessError when the command exits non-zero, TimeoutExpired at the timeout,
\* and returns the url otherwise.
CreateDeploymentHelm(r) ==
    /\ req[r].pc = "cd_helm"
    /\ LET a == DeployArgs(req[r].user, req[r].dep) IN
       IF ~ingressConfigured
       THEN /\ req' = [req EXCEPT ![r] = [req[r] EXCEPT !.pc = "cd_rollback"]]
            /\ UNCHANGED <<releases, namespaces>>
       ELSE IF ~chartExists
       THEN /\ req' = [req EXCEPT ![r] =
                   [req[r] EXCEPT !.helm = "apply", !.calls = @ + 1, !.args = a,
                                  !.pc = AfterDeploy(TRUE)]]
            /\ UNCHANGED <<releases, namespaces>>
       ELSE \E o \in InstallOutcomes(a[1], a[2]) :
              /\ releases' \in AfterInstall(a[1], a[2], o)
              /\ namespaces' \in NamespacesAfterInstall(a[1], o)
              /\ a \in releases' => a[1] \in namespaces'
              /\ req' = [req EXCEPT ![r] =
                     [req[r] EXCEPT
                        !.helm = "apply", !.cmd = TRUE, !.api = ReturnCode(o),
                        !.calls = @ + 1, !.cmds = @ + 1, !.args = a,
                        !.url = IF DeployModelRaises(o) THEN NULL
                                ELSE DeployModelUrl(INGRESS_HOST,
                                         INGRESS_BASE_PATH \o "/" \o ToString(req[r].dep.id)),
                        !.pc = AfterDeploy(DeployModelRaises(o))]]
    /\ UNCHANGED <<db, seqs, now, env, accounts, quotas, policies>>

\* create_deployment: deployment.url = ...; repository.update(deployment).
\* The UPDATE of a row that is gone raises, which the except block catches.
CreateDeploymentUpdate(r) ==
    /\ req[r].pc = "cd_update"
    /\ IF req[r].dep.id \in DOMAIN deployments
       THEN /\ deployments' = [deployments EXCEPT
                                 ![req[r].dep.id].url = DeploymentUrl(req[r].dep.id)]
            /\ req' = [req EXCEPT ![r] =
                   Respond(r, HTTP_201_CREATED,
                           {<<"deployment", req[r].dep.id>>,
                            <<"url", DeploymentUrl(req[r].dep.id)>>})]
       ELSE /\ UNCHANGED deployments
            /\ req' = [req EXCEPT ![r] = [req[r] EXCEPT !.pc = "cd_rollback"]]
    /\ UNCHANGED <<models, versions, seqs, now, releases, env, accounts, tenants>>

\* faulty variant of DeleteDeploymentRow: the except block deletes nothing
DeleteDeploymentRowSkipped(deployment_id) == deployments

\* the deployments table after repository.delete(deployment)
DeleteDeploymentRow(deployment_id) == Without(deployments, deployment_id)

\* create_deployment, except block: repository.delete(deployment), then the 500
CreateDeploymentRollback(r) ==
    /\ req[r].pc = "cd_rollback"
    /\ deployments' = DeleteDeploymentRow(req[r].dep.id)
    /\ req' = [req EXCEPT ![r] = Respond(r, HTTP_500_INTERNAL_SERVER_ERROR, {})]
    /\ UNCHANGED <<models, versions, seqs, now, releases, env, accounts, tenants>>

\* the process that serves a create_deployment request stops between two of its
\* steps: no further statement of the request runs and no response is sent.  What
\* was committed stays committed; a `helm install` child that was running may end
\* in any of its outcomes.
Crash(r) ==
    /\ req[r].op = "create_deployment"
    /\ req[r].pc # "done"
    /\ IF req[r].pc = "cd_helm" /\ ingressConfigured /\ chartExists
       THEN \E o \in InstallOutcomes(Namespace(req[r].user), req[r].dep.k8s_service_name) :
              /\ releases' \in AfterInstall(Namespace(req[r].user),
                                            req[r].dep.k8s_service_name, o)
              /\ namespaces' \in NamespacesAfterInstall(Namespace(req[r].user), o)
              /\ <<Namespace(req[r].user), req[r].dep.k8s_service_name>> \in releases'
                    => Namespace(req[r].user) \in namespaces'
       ELSE UNCHANGED <<releases, namespaces>>
    /\ req' = [req EXCEPT ![r] = [Respond(r, 0, {}) EXCEPT !.st = "crashed"]]
    /\ UNCHANGED <<db, seqs, now, env, accounts, quotas, policies>>

\* faulty variant of DeploymentLookup: a row that is gone counts as deleted (204)
DeploymentLookupGoneIsDeleted(r, op, u, d, next) ==
    IF d \in DOMAIN deployments
    THEN [Idle EXCEPT !.op = op, !.user = u, !.id = d, !.pc = next,
                      !.dep = [id |-> d, version_id |-> deployments[d].version_id,
                               k8s_service_name |-> deployments[d].k8s_service_name]]
    ELSE [Idle EXCEPT !.op = op, !.user = u, !.id = d, !.result = HTTP_204_NO_CONTENT]

\* the first step of the operations that start from a deployment id:
\* repository.get_by_id(deployment_id), 404 when there is no such row
DeploymentLookup(r, op, u, d, next) ==
    IF d \in DOMAIN deployments
    THEN [Idle EXCEPT !.op = op, !.user = u, !.id = d, !.pc = next,
                      !.dep = LoadDeployment(d)]
    ELSE [Idle EXCEPT !.op = op, !.user = u, !.id = d, !.result = HTTP_404_NOT_FOUND]

\* the second step: version_repository.get_by_id(deployment.version_id)
DeploymentVersionLookup(r, next) ==
    IF req[r].dep.version_id \in DOMAIN versions
    THEN [req[r] EXCEPT !.pc = next, !.ver = LoadVersionKey(req[r].dep.version_id)]
    ELSE [Respond(r, HTTP_404_NOT_FOUND, {}) EXCEPT !.dep = NoDep]

\* GET /deployments/{deployment_id}: repository.get_by_id(deployment_id)
GetDeploymentLookup(r) ==
    /\ req[r].pc = "done"
    /\ \E u \in Users, d \in 1..MaxDeployments :
         req' = [req EXCEPT ![r] = DeploymentLookup(r, "get_deployment", u, d, "gd_version")]
    /\ UNCHANGED <<db, seqs, now, releases, env, accounts, tenants>>

\* get_deployment: version_repository.get_by_id(deployment.version_id)
GetDeploymentVersionLookup(r) ==
    /\ req[r].pc = "gd_version"
    /\ req' = [req EXCEPT ![r] = DeploymentVersionLookup(r, "gd_model")]
    /\ UNCHANGED <<db, seqs, now, releases, env, accounts, tenants>>

\* get_deployment: model_repository.get_by_id(version.model_id, user_id)
GetDeploymentModelLookup(r) ==
    /\ req[r].pc = "gd_model"
    /\ req' = [req EXCEPT ![r] =
           IF ModelGetById(req[r].ver.model_id, req[r].user)
           THEN [Respond(r, HTTP_200_OK, {<<"deployment", req[r].dep.id>>})
                   EXCEPT !.dep = NoDep]
           ELSE [Respond(r, HTTP_403_FORBIDDEN, {}) EXCEPT !.dep = NoDep]]
    /\ UNCHANGED <<db, seqs, now, releases, env, accounts, tenants>>

\* GET /versions/{version_id}/deployments: version_repository.get_by_id(version_id)
GetDeploymentsLookup(r) ==
    /\ req[r].pc = "done"
    /\ \E u \in Users, v \in 1..MaxVersions :
         req' = [req EXCEPT ![r] =
             VersionLookup(r, "get_deployments_by_version", u, v, "gdv_model")]
    /\ UNCHANGED <<db, seqs, now, releases, env, accounts, tenants>>

\* get_deployments_by_version: model_repository.get_by_id(version.model_id, user_id)
GetDeploymentsModelLookup(r) ==
    /\ req[r].pc = "gdv_model"
    /\ req' = [req EXCEPT ![r] =
           IF ModelGetById(req[r].ver.model_id, req[r].user)
           THEN [req[r] EXCEPT !.pc = "gdv_list"]
           ELSE Respond(r, HTTP_403_FORBIDDEN, {})]
    /\ UNCHANGED <<db, seqs, now, releases, env, accounts, tenants>>

\* get_deployments_by_version: repository.get_by_version_id(version_id)
GetDeploymentsList(r) ==
    /\ req[r].pc = "gdv_list"
    /\ req' = [req EXCEPT ![r] =
           Respond(r, HTTP_200_OK,
                   {<<"deployment", d>> : d \in DeploymentsByVersionId(req[r].id)})]
    /\ UNCHANGED <<db, seqs, now, releases, env, accounts, tenants>>

\* DELETE /deployments/{deployment_id}: repository.get_by_id(deployment_id)
DeleteDeploymentLookup(r) ==
    /\ req[r].pc = "done"
    /\ \E u \in Users, d \in 1..MaxDeployments :
         req' = [req EXCEPT ![r] =
             DeploymentLookup(r, "delete_deployment", u, d, "dd_version")]
    /\ UNCHANGED <<db, seqs, now, releases, env, accounts, tenants>>

\* delete_deployment: version_repository.get_by_id(deployment.version_id)
DeleteDeploymentVersionLookup(r) ==
    /\ req[r].pc = "dd_version"
    /\ req' = [req EXCEPT ![r] = DeploymentVersionLookup(r, "dd_model")]
    /\ UNCHANGED <<db, seqs, now, releases, env, accounts, tenants>>

\* delete_deployment: model_repository.get_by_id(version.model_id, user_id)
DeleteDeploymentModelLookup(r) ==
    /\ req[r].pc = "dd_model"
    /\ req' = [req EXCEPT ![r] =
           IF ModelGetById(req[r].ver.model_id, req[r].user)
           THEN [req[r] EXCEPT !.pc = "dd_helm", !.ver = NoVer]
           ELSE [Respond(r, HTTP_403_FORBIDDEN, {}) EXCEPT !.dep = NoDep]]
    /\ UNCHANGED <<db, seqs, now, releases, env, accounts, tenants>>

\* faulty variant of AfterUndeploy: a failed undeploy_model ends the request
AfterUndeployPropagates(o) == IF o = "returned" THEN "dd_delete" ELSE "dd_failed"

\* where delete_deployment goes after helm_service.undeploy_model(...) has
\* "returned" or "raised": the except block logs the failure and falls through to the delete
AfterUndeploy(o) == "dd_delete"

\* faulty variant of UndeployArgs: the release name is generated anew
UndeployArgsRegenerated(user_id, dep) ==
    <<Namespace(user_id), ServiceName(dep.version_id, now)>>

\* delete_deployment: namespace = f"user-{user_id}"; release_name =
\* deployment.k8s_service_name: the <<namespace, release_name>> handed to
\* undeploy_model
UndeployArgs(user_id, dep) == <<Namespace(user_id), dep.k8s_service_name>>

\* delete_deployment: helm_service.undeploy_model(release_name, namespace) in a try
DeleteDeploymentHelm(r) ==
    /\ req[r].pc = "dd_helm"
    /\ LET a == UndeployArgs(req[r].user, req[r].dep) IN
       \E o \in UninstallOutcomes(a[1], a[2]) :
       \E e \in UninstallStderrs(a[1], a[2], o) :
         /\ releases' \in AfterUninstall(a[1], a[2], o)
         /\ req' = [req EXCEPT ![r] =
                [req[r] EXCEPT !.helm = "remove", !.cmd = TRUE,
                               !.api = ReturnCode(o), !.stderr = e,
                               !.calls = @ + 1, !.cmds = @ + 1, !.args = a,
                               !.pc = AfterUndeploy(UndeployModel(o, e)),
                               !.st = IF UndeployModel(o, e) = "returned" THEN ""
                                      ELSE "raised"]]
    /\ UNCHANGED <<db, seqs, now, env, accounts, tenants>>

\* delete_deployment: repository.delete(deployment)
DeleteDeploymentCommit(r) ==
    /\ req[r].pc = "dd_delete"
    /\ deployments' = DeleteDeploymentRow(req[r].dep.id)
    /\ req' = [req EXCEPT ![r] =
           [Respond(r, HTTP_204_NO_CONTENT, {}) EXCEPT !.wrote = TRUE, !.st = req[r].st]]
    /\ UNCHANGED <<models, versions, seqs, now, releases, env, accounts, tenants>>

(* ------------------------------ KubernetesClient ----------------------- *)
\* how a call to the Kubernetes API ends, apart from the answers 404 and 409 that
\* the state of the cluster decides: "error" is an ApiException with another status
ApiOutcomes == {"ok", "error"}

\* the status with which the API answers the read of an object
ReadAnswer(o, exists) ==
    IF o = "error" THEN HTTP_500_INTERNAL_SERVER_ERROR
    ELSE IF exists THEN HTTP_200_OK ELSE HTTP_404_NOT_FOUND

\* the status with which the API answers the creation of an object in a parent
CreateAnswer(o, parent_exists, exists) ==
    IF o = "error" THEN HTTP_500_INTERNAL_SERVER_ERROR
    ELSE IF ~parent_exists THEN HTTP_404_NOT_FOUND
    ELSE IF exists THEN HTTP_409_CONFLICT ELSE HTTP_201_CREATED

\* faulty variant of CreateRaises: every ApiException is logged and ignored
CreateRaisesNever(status) == FALSE

\* faulty variant of CreateRaises: already-exists is raised like any other error
CreateRaisesOnConflict(status) == status # HTTP_201_CREATED

\* except ApiException as e: if e.status == 409: (log) else: raise
CreateRaises(status) == status # HTTP_201_CREATED /\ status # HTTP_409_CONFLICT

\* faulty variant of DeleteRaises: not-found is raised like any other error
DeleteRaisesOnNotFound(status) == status # HTTP_200_OK

\* except ApiException as e: if e.status == 404: (log) else: raise
DeleteRaises(status) == status # HTTP_200_OK /\ status # HTTP_404_NOT_FOUND

\* faulty variant of SetupEnd: what setup_user_namespace raises reaches the caller
SetupEndSurfaced(r, outcome) ==
    [Respond(r, IF req[r].op # "register" THEN 0
                ELSE IF outcome = "raised" THEN HTTP_500_INTERNAL_SERVER_ERROR
                ELSE HTTP_201_CREATED, {})
       EXCEPT !.st = outcome]

\* setup_user_namespace ends for the request of slot r, having "returned" or "raised".
\* create_user catches and logs what it raises and returns the user (201).
SetupEnd(r, outcome) ==
    [Respond(r, IF req[r].op = "register" THEN HTTP_201_CREATED ELSE 0,
                IF req[r].op = "register" THEN {<<"user", req[r].id>>} ELSE {})
       EXCEPT !.st = outcome]

\* setup_user_namespace(user_id) called on an existing client
SetupUserNamespace(r) ==
    /\ req[r].pc = "done"
    /\ \E u \in 1..MaxUsers :
         req' = [req EXCEPT ![r] =
             [Idle EXCEPT !.op = "setup_user_namespace", !.user = u, !.id = u,
                          !.pc = "ns_check"]]
    /\ UNCHANGED <<db, seqs, now, releases, env, accounts, tenants>>

\* create_namespace: namespace_exists(namespace), i.e. read_namespace; 404 is False,
\* another error status is raised
NamespaceExists(r) ==
    /\ req[r].pc = "ns_check"
    /\ \E o \in ApiOutcomes :
         LET status == ReadAnswer(o, Namespace(req[r].id) \in namespaces) IN
         req' = [req EXCEPT ![r] =
             IF status = HTTP_200_OK THEN [req[r] EXCEPT !.pc = "quota", !.api = status]
             ELSE IF status = HTTP_404_NOT_FOUND
             THEN [req[r] EXCEPT !.pc = "ns_create", !.api = status]
             ELSE [SetupEnd(r, "raised") EXCEPT !.api = status]]
    /\ UNCHANGED <<db, seqs, now, releases, env, accounts, tenants>>

\* create_namespace: core_v1.create_namespace(body); 409 is logged and ignored
CreateNamespace(r) ==
    /\ req[r].pc = "ns_create"
    /\ \E o \in ApiOutcomes :
         LET status == CreateAnswer(o, TRUE, Namespace(req[r].id) \in namespaces) IN
         /\ namespaces' = IF status = HTTP_201_CREATED
                          THEN namespaces \cup {Namespace(req[r].id)} ELSE namespaces
         /\ req' = [req EXCEPT ![r] =
                IF CreateRaises(status) THEN [SetupEnd(r, "raised") EXCEPT !.api = status]
                ELSE [req[r] EXCEPT !.pc = "quota", !.api = status]]
    /\ UNCHANGED <<db, seqs, now, releases, env, accounts, quotas, policies>>

\* create_resource_quota: create_namespaced_resource_quota; 409 is logged and
\* ignored, the 404 of a namespace that is gone is raised
CreateResourceQuota(r) ==
    /\ req[r].pc = "quota"
    /\ \E o \in ApiOutcomes :
         LET status == CreateAnswer(o, Namespace(req[r].id) \in namespaces,
                                    Namespace(req[r].id) \in quotas) IN
         /\ quotas' = IF status = HTTP_201_CREATED
                      THEN quotas \cup {Namespace(req[r].id)} ELSE quotas
         /\ req' = [req EXCEPT ![r] =
                IF CreateRaises(status) THEN [SetupEnd(r, "raised") EXCEPT !.api = status]
                ELSE [req[r] EXCEPT !.pc = "policy", !.api = status]]
    /\ UNCHANGED <<db, seqs, now, releases, env, accounts, namespaces, policies>>

\* create_network_policy: create_namespaced_network_policy; 409 is logged and
\* ignored, the 404 of a namespace that is gone is raised
CreateNetworkPolicy(r) ==
    /\ req[r].pc = "policy"
    /\ \E o \in ApiOutcomes :
         LET status == CreateAnswer(o, Namespace(req[r].id) \in namespaces,
                                    Namespace(req[r].id) \in policies) IN
         /\ policies' = IF status = HTTP_201_CREATED
                        THEN policies \cup {Namespace(req[r].id)} ELSE policies
         /\ req' = [req EXCEPT ![r] =
                [SetupEnd(r, IF CreateRaises(status) THEN "raised" ELSE "returned")
                   EXCEPT !.api = status]]
    /\ UNCHANGED <<db, seqs, now, releases, env, accounts, namespaces, quotas>>

\* the namespaces after the API has deleted one
NamespacesWithout(namespace) == namespaces \ {namespace}

\* delete_namespace(namespace): 404 is logged and ignored, other errors are raised;
\* a deleted namespace takes its quota, its policy and its releases with it
DeleteNamespace(r) ==
    /\ req[r].pc = "done"
    /\ \E u \in 1..MaxUsers, o \in ApiOutcomes :
         LET status == ReadAnswer(o, Namespace(u) \in namespaces) IN
         /\ req' = [req EXCEPT ![r] =
                [Idle EXCEPT !.op = "delete_namespace", !.user = u, !.id = u,
                             !.api = status,
                             !.st = IF DeleteRaises(status) THEN "raised"
                                    ELSE "returned"]]
         /\ IF status = HTTP_200_OK
            THEN /\ namespaces' = NamespacesWithout(Namespace(u))
                 /\ quotas' = quotas \ {Namespace(u)}
                 /\ policies' = policies \ {Namespace(u)}
                 /\ releases' = {x \in releases : x[1] # Namespace(u)}
            ELSE UNCHANGED <<releases, tenants>>
    /\ UNCHANGED <<db, seqs, now, env, accounts>>

(* ------------------------------ UserService ---------------------------- *)
\* create_user requests on their way to the INSERT
PendingUserInserts == Cardinality({r \in Slots : req[r].pc = "ru_insert"})

\* POST /register: repository.get_by_email(email), 400 when the e-mail is taken
RegisterLookup(r) ==
    /\ req[r].pc = "done"
    /\ \E e \in Emails :
         LET taken == \E u \in DOMAIN users : users[u].email = e IN
         /\ ~taken => nextUserId + PendingUserInserts <= MaxUsers
         /\ req' = [req EXCEPT ![r] =
                IF taken
                THEN [Idle EXCEPT !.op = "register", !.tag = e,
                                  !.result = HTTP_400_BAD_REQUEST]
                ELSE [Idle EXCEPT !.op = "register", !.tag = e, !.pc = "ru_insert"]]
    /\ UNCHANGED <<db, seqs, now, releases, env, accounts, tenants>>

\* the constraint of users an INSERT must satisfy: email is unique
UserInsertAllowed(email) == \A u \in DOMAIN users : users[u].email # email

\* create_user: repository.create(user_data, password_hash); the route turns an
\* exception that is not an HTTPException into 500
RegisterInsert(r) ==
    /\ req[r].pc = "ru_insert"
    /\ IF UserInsertAllowed(req[r].tag)
       THEN /\ users' = (nextUserId :> [email |-> req[r].tag]) @@ users
            /\ nextUserId' = nextUserId + 1
            /\ req' = [req EXCEPT ![r] =
                   [req[r] EXCEPT !.pc = "k8s_client", !.wrote = TRUE,
                                  !.user = nextUserId, !.id = nextUserId]]
       ELSE /\ UNCHANGED accounts
            /\ req' = [req EXCEPT ![r] = Respond(r, HTTP_500_INTERNAL_SERVER_ERROR, {})]
    /\ UNCHANGED <<db, seqs, now, releases, env, tenants>>

\* create_user, try block: KubernetesClient(), which raises when the kubeconfig
\* cannot be loaded
RegisterClient(r) ==
    /\ req[r].pc = "k8s_client"
    /\ \E o \in ApiOutcomes :
         req' = [req EXCEPT ![r] =
             IF o = "error" THEN SetupEnd(r, "raised")
             ELSE [req[r] EXCEPT !.pc = "ns_check"]]
    /\ UNCHANGED <<db, seqs, now, releases, env, accounts, tenants>>

(* ------------------------------ specification -------------------------- *)
ModelOps(r) ==
    \/ CreateModel(r)
    \/ GetModel(r)
    \/ DeleteModelLookup(r)
    \/ DeleteModelCommit(r)

CreateVersionOps(r) ==
    \/ CreateVersionModelLookup(r)
    \/ CreateVersionTagLookup(r)
    \/ CreateVersionInsert(r)

ReadVersionOps(r) ==
    \/ GetVersionLookup(r)
    \/ GetVersionModelLookup(r)
    \/ GetVersionsModelLookup(r)
    \/ GetVersionsList(r)

UpdateVersionOps(r) ==
    \/ UpdateStatusLookup(r)
    \/ UpdateStatusModelLookup(r)
    \/ UpdateStatusCommit(r)
    \/ UpdateS3Lookup(r)
    \/ UpdateS3ModelLookup(r)
    \/ UpdateS3Commit(r)

CreateDeploymentOps(r) ==
    \/ CreateDeploymentLookup(r)
    \/ CreateDeploymentModelLookup(r)
    \/ CreateDeploymentInsert(r)
    \/ CreateDeploymentHelm(r)
    \/ CreateDeploymentUpdate(r)
    \/ CreateDeploymentRollback(r)

ReadDeploymentOps(r) ==
    \/ GetDeploymentLookup(r)
    \/ GetDeploymentVersionLookup(r)
    \/ GetDeploymentModelLookup(r)
    \/ GetDeploymentsLookup(r)
    \/ GetDeploymentsModelLookup(r)
    \/ GetDeploymentsList(r)

DeleteDeploymentOps(r) ==
    \/ DeleteDeploymentLookup(r)
    \/ DeleteDeploymentVersionLookup(r)
    \/ DeleteDeploymentModelLookup(r)
    \/ DeleteDeploymentHelm(r)
    \/ DeleteDeploymentCommit(r)

\* every operation of the three services, for the request slot r
Request(r) ==
    \/ ModelOps(r)
    \/ CreateVersionOps(r)
    \/ ReadVersionOps(r)
    \/ UpdateVersionOps(r)
    \/ CreateDeploymentOps(r)
    \/ ReadDeploymentOps(r)
    \/ DeleteDeploymentOps(r)

\* Spec: every operation, from the empty store, one request at a time and within
\* one second of the clock (DeploySpec covers the clock advancing)
Next ==
    \E r \in {1} : Request(r)

Spec == Init /\ [][Next]_vars

\* RegistrySpec: the model and version operations from the empty store, with
\* requests of two workers interleaved between their database steps
RegistryNext ==
    \E r \in Slots :
         \/ ModelOps(r)
         \/ CreateVersionOps(r)
         \/ ReadVersionOps(r)

RegistrySpec == Init /\ [][RegistryNext]_vars

RegisterOps(r) ==
    \/ RegisterLookup(r)
    \/ RegisterInsert(r)
    \/ RegisterClient(r)

SetupOps(r) ==
    \/ SetupUserNamespace(r)
    \/ NamespaceExists(r)
    \/ CreateNamespace(r)
    \/ CreateResourceQuota(r)
    \/ CreateNetworkPolicy(r)

\* a fresh installation: no user registered, nothing in the cluster
TenantInit ==
    /\ models = <<>>
    /\ versions = <<>>
    /\ deployments = <<>>
    /\ nextModelId = 1
    /\ nextVersionId = 1
    /\ nextDeploymentId = 1
    /\ now = 0
    /\ releases = {}
    /\ ingressConfigured = FALSE
    /\ chartExists = TRUE
    /\ users = <<>>
    /\ nextUserId = 1
    /\ namespaces = {}
    /\ quotas = {}
    /\ policies = {}
    /\ req = [r \in Slots |-> Idle]

\* TenantSpec: registration, tenant setup and tenant teardown, with the calls of
\* two workers interleaved between their database and Kubernetes API steps
TenantNext ==
    \E r \in Slots :
         \/ RegisterOps(r)
         \/ SetupOps(r)
         \/ DeleteNamespace(r)

TenantSpec == TenantInit /\ [][TenantNext]_vars

\* SetupSpec: registration and tenant setup of two workers, with no teardown
SetupNext ==
    \E r \in Slots :
         \/ RegisterOps(r)
         \/ SetupOps(r)

SetupSpec == TenantInit /\ [][SetupNext]_vars

\* the store as the test fixtures build it: a model of user 1 with one version
\* (tag "v1"), in any status and with or without an uploaded artifact; the fixtures
\* insert the users directly, so no namespace has been set up
FixtureInit ==
    /\ models = (1 :> [user_id |-> 1])
    /\ \E st \in ModelVersionStatus, p \in S3Inputs :
         versions = (1 :> [model_id |-> 1, version_tag |-> "v1",
                           s3_path |-> p, status |-> st])
    /\ deployments = <<>>
    /\ nextModelId = 2
    /\ nextVersionId = 2
    /\ nextDeploymentId = 1
    /\ now = 0
    /\ releases = {}
    /\ ingressConfigured \in BOOLEAN
    /\ chartExists \in BOOLEAN
    /\ users = RegisteredUsers
    /\ nextUserId = 3
    /\ namespaces = {}
    /\ quotas = {}
    /\ policies = {}
    /\ req = [r \in Slots |-> Idle]

\* DeploySpec: the deployment operations on the fixture store, with requests of
\* two workers interleaved between their database and Helm steps
DeployNext ==
    \/ Tick
    \/ \E r \in Slots :
         \/ CreateDeploymentOps(r)
         \/ DeleteDeploymentOps(r)
         \/ GetDeploymentLookup(r)
         \/ GetDeploymentVersionLookup(r)
         \/ GetDeploymentModelLookup(r)

DeploySpec == FixtureInit /\ [][DeployNext]_vars

\* CascadeSpec: create_version, create_deployment, delete_deployment and
\* delete_model on the fixture store, with requests of two workers interleaved
CascadeNext ==
    \E r \in Slots :
         \/ DeleteModelLookup(r)
         \/ DeleteModelCommit(r)
         \/ CreateVersionOps(r)
         \/ CreateDeploymentOps(r)
         \/ DeleteDeploymentOps(r)

CascadeSpec == FixtureInit /\ [][CascadeNext]_vars

\* CrashSpec: the deployment operations of two workers, each of which may stop in
\* the middle of a create_deployment
CrashNext ==
    \/ DeployNext
    \/ \E r \in Slots : Crash(r)

CrashSpec == FixtureInit /\ [][CrashNext]_vars

\* DriftSpec: create_deployment and delete_deployment of one worker interleaved
\* with update_version_status, update_version_s3_path and delete_model of another
DriftNext ==
    \E r \in Slots :
         \/ CreateDeploymentOps(r)
         \/ DeleteDeploymentOps(r)
         \/ UpdateVersionOps(r)
         \/ DeleteModelLookup(r)
         \/ DeleteModelCommit(r)

DriftSpec == FixtureInit /\ [][DriftNext]_vars

\* IsolationSpec: users who exist without a namespace (their setup at registration
\* raised at once and was suppressed, or they were inserted directly); setup calls,
\* which the API may refuse part-way, interleaved with create_deployment and
\* delete_deployment
IsolationNext ==
    \E r \in Slots :
         \/ SetupOps(r)
         \/ CreateDeploymentOps(r)
         \/ DeleteDeploymentOps(r)

IsolationSpec == FixtureInit /\ [][IsolationNext]_vars

\* StatusSpec: the operations that write versions or read their status
\* (create_version, update_version_status, update_version_s3_path,
\* create_deployment, delete_deployment) on the fixture store, one request at a time
StatusNext ==
    \E r \in {1} :
         \/ CreateVersionOps(r)
         \/ UpdateVersionOps(r)
         \/ CreateDeploymentOps(r)
         \/ DeleteDeploymentOps(r)

StatusSpec == FixtureInit /\ [][StatusNext]_vars

(* ======================================================================= *)
(*                               properties                                *)
(* ======================================================================= *)
ModelIdOps == {"get_model", "delete_model", "create_version", "get_versions_by_model"}
VersionIdOps == {"get_version", "update_version_status", "update_version_s3_path",
                 "create_deployment", "get_deployments_by_version"}
DeploymentIdOps == {"get_deployment", "delete_deployment"}

\* request q names an entity that is in the store
TargetExists(q) ==
    \/ q.op \in ModelIdOps /\ q.id \in DOMAIN models
    \/ q.op \in VersionIdOps /\ q.id \in DOMAIN versions
    \/ q.op \in DeploymentIdOps /\ q.id \in DOMAIN deployments

\* the model at the top of the ownership chain of q's entity
TargetModel(q) ==
    IF q.op \in ModelIdOps THEN q.id
    ELSE IF q.op \in VersionIdOps THEN versions[q.id].model_id
    ELSE versions[deployments[q.id].version_id].model_id

\* q names an existing entity whose model belongs to another user
NonOwner(q) == TargetExists(q) /\ models[TargetModel(q)].user_id # q.user

\* q is a finished request
Finished(q) == q.pc = "done" /\ q.op # "none"

\* slot r takes a step
Steps(r) == req'[r] # req[r]

\* a deployment id the sequence handed out whose row is gone
Removed(deployment_id) ==
    deployment_id < nextDeploymentId /\ deployment_id \notin DOMAIN deployments

(* ---- C1 ---------------------------------------------------------------- *)
\* C1 (rollback atomicity): the except block of create_deployment deletes exactly
\* the row the request inserted and leaves every other row as it was, then answers
\* 500; so a create_deployment that has answered 500 after inserting a row has no
\* row left in the table (no row with url NULL outlives a failed create).
C1_Step ==
    \A r \in Slots :
        /\ (req[r].pc = "cd_rollback" /\ Steps(r)) =>
               /\ deployments' = Without(deployments, req[r].dep.id)
               /\ models' = models /\ versions' = versions
               /\ req'[r].pc = "done"
               /\ req'[r].result = HTTP_500_INTERNAL_SERVER_ERROR
        /\ (req[r].pc = "cd_helm" /\ Steps(r) /\ req'[r].pc # "cd_update") =>
               req'[r].pc = "cd_rollback" /\ db' = db
        /\ (/\ req'[r].op = "create_deployment" /\ req'[r].pc = "done"
            /\ req'[r].result = HTTP_500_INTERNAL_SERVER_ERROR
            /\ req'[r].dep.id # 0) => req'[r].dep.id \notin DOMAIN deployments'
C1_RollbackAtomicity == [][C1_Step]_vars

\* a create whose apply call failed has answered 500, its row is gone, and the row
\* of another deployment is still in the table
C1_Witness ==
    \E r \in Slots :
        /\ req[r].op = "create_deployment" /\ req[r].pc = "done"
        /\ req[r].result = HTTP_500_INTERNAL_SERVER_ERROR
        /\ req[r].helm = "apply"
        /\ req[r].dep.id \notin DOMAIN deployments
        /\ \E d \in DOMAIN deployments : d # req[r].dep.id

(* ---- C2 ---------------------------------------------------------------- *)
\* C2 (readiness gate): whatever status and s3_path updates preceded the call, a
\* create_deployment goes past its checks (and so can only then succeed) only for a
\* version that is READY with a non-empty s3_path, and the owner's request for a
\* version that is not answers 400.
C2_ReadinessGate ==
    \A r \in Slots :
        req[r].op = "create_deployment" =>
            /\ (\/ req[r].pc \in {"cd_insert", "cd_helm", "cd_update", "cd_rollback"}
                \/ (req[r].pc = "done" /\ req[r].result = HTTP_201_CREATED)) =>
                   /\ req[r].id \in DOMAIN versions
                   /\ versions[req[r].id].status = READY
                   /\ versions[req[r].id].s3_path # ""
            /\ (/\ req[r].pc = "done"
                /\ req[r].id \in DOMAIN versions
                /\ ~NonOwner(req[r])
                /\ ~(versions[req[r].id].status = READY
                     /\ versions[req[r].id].s3_path # "")) =>
                   req[r].result = HTTP_400_BAD_REQUEST

\* a deployment was created for a version that is READY and has its artifact
C2_Witness ==
    \E r \in Slots :
        /\ req[r].op = "create_deployment" /\ req[r].pc = "done"
        /\ req[r].result = HTTP_201_CREATED
        /\ versions[req[r].id].status = READY

(* ---- C3 ---------------------------------------------------------------- *)
\* C3 (deletion resilience): whatever undeploy_model does (return or raise),
\* delete_deployment goes on to delete the row; that step removes exactly this row,
\* changes no model, version or other deployment, and answers 204; so after a
\* delete_deployment that called Helm the row is absent and the answer is success.
C3_Step ==
    \A r \in Slots :
        /\ (req[r].pc = "dd_helm" /\ Steps(r)) =>
               req'[r].pc = "dd_delete" /\ db' = db
        /\ (req[r].pc = "dd_delete" /\ Steps(r)) =>
               /\ deployments' = Without(deployments, req[r].dep.id)
               /\ models' = models /\ versions' = versions
               /\ req'[r].pc = "done"
               /\ req'[r].result = HTTP_204_NO_CONTENT
        /\ (/\ req'[r].op = "delete_deployment" /\ req'[r].pc = "done"
            /\ req'[r].helm = "remove") =>
               /\ req'[r].result = HTTP_204_NO_CONTENT
               /\ req'[r].dep.id \notin DOMAIN deployments'
C3_DeletionResilience == [][C3_Step]_vars

\* undeploy_model raised, the request answered 204, its row is gone and another
\* deployment row is still there
C3_Witness ==
    \E r \in Slots :
        /\ req[r].op = "delete_deployment" /\ req[r].pc = "done"
        /\ req[r].st = "raised"
        /\ req[r].result = HTTP_204_NO_CONTENT
        /\ req[r].dep.id \notin DOMAIN deployments
        /\ deployments # <<>>

(* ---- C4 ---------------------------------------------------------------- *)
\* C4 (ownership): every step of a request that names an existing entity of another
\* user's model leaves the store and the cluster unchanged, invokes no Helm call and
\* returns no data, and when the request ends its answer is 403 or 404.
C4_Step ==
    \A r \in Slots :
        (Steps(r) /\ NonOwner(req'[r])) =>
            /\ db' = db
            /\ releases' = releases
            /\ ~req'[r].wrote
            /\ req'[r].helm = "none"
            /\ req'[r].data = {}
            /\ req'[r].pc = "done" =>
                   req'[r].result \in {HTTP_403_FORBIDDEN, HTTP_404_NOT_FOUND}
C4_Ownership == [][C4_Step]_vars

\* a user who does not own the model was refused the deletion of a deployment
\* that exists
C4_Witness ==
    \E r \in Slots :
        /\ req[r].op = "delete_deployment" /\ Finished(req[r])
        /\ NonOwner(req[r])
        /\ req[r].result = HTTP_403_FORBIDDEN

(* ---- C5 ---------------------------------------------------------------- *)
\* C5 (version-tag uniqueness): at most one version per (model_id, version_tag),
\* also when create_version requests interleave between lookup and insert.
C5_TagUnique ==
    \A v1, v2 \in DOMAIN versions :
        (/\ versions[v1].model_id = versions[v2].model_id
         /\ versions[v1].version_tag = versions[v2].version_tag) => v1 = v2

(* ---- C6 ---------------------------------------------------------------- *)
\* C6 (duplicate tag rejected): the tag lookup of create_version answers 400 and
\* changes nothing whenever the model already has a version with exactly this tag,
\* and lets the request go on to the insert when it has none (tags differing in
\* case are different tags).
C6_Step ==
    \A r \in Slots :
        (req[r].pc = "cv_tag" /\ Steps(r)) =>
            IF \E v \in DOMAIN versions : /\ versions[v].model_id = req[r].id
                                          /\ versions[v].version_tag = req[r].tag
            THEN /\ req'[r].pc = "done"
                 /\ req'[r].result = HTTP_400_BAD_REQUEST
                 /\ versions' = versions
            ELSE req'[r].pc = "cv_insert"
C6_DuplicateTagRejected == [][C6_Step]_vars

(* ---- C7 ---------------------------------------------------------------- *)
\* C7 (workload-name uniqueness): no two deployment rows have the same
\* k8s_service_name, and the name of every row is the one the system generates from
\* the row's version id and a clock reading.
C7_ServiceNameUnique ==
    /\ \A d1, d2 \in DOMAIN deployments :
           deployments[d1].k8s_service_name = deployments[d2].k8s_service_name => d1 = d2
    /\ \A d \in DOMAIN deployments :
           \E t \in 0..MaxTime :
               deployments[d].k8s_service_name = ServiceName(deployments[d].version_id, t)

\* a create_deployment generated the name of a row that exists (same version, same
\* second) and ended without inserting a row
C7_Witness ==
    \E r \in Slots :
        /\ req[r].op = "create_deployment" /\ req[r].pc = "done"
        /\ req[r].result = HTTP_500_INTERNAL_SERVER_ERROR
        /\ req[r].dep.id = 0
        /\ \E d \in DOMAIN deployments :
               deployments[d].k8s_service_name = ServiceName(req[r].id, now)

(* ---- C8 ---------------------------------------------------------------- *)
\* C8 (idempotent teardown): a removed deployment id stays removed, and a
\* delete_deployment or get_deployment that arrives for a removed id answers 404 at
\* once, without a Helm call and without changing the store or the cluster.
C8_Step ==
    /\ \A d \in 1..MaxDeployments : Removed(d) => d \notin DOMAIN deployments'
    /\ \A r \in Slots :
           (/\ req[r].pc = "done" /\ Steps(r)
            /\ req'[r].op \in DeploymentIdOps
            /\ Removed(req'[r].id)) =>
               /\ req'[r].pc = "done"
               /\ req'[r].result = HTTP_404_NOT_FOUND
               /\ req'[r].helm = "none"
               /\ ~req'[r].wrote
               /\ db' = db
               /\ releases' = releases
C8_IdempotentTeardown == [][C8_Step]_vars

\* one request deleted a deployment and another request for the same id got 404
C8_Witness ==
    \E r, q \in Slots :
        /\ req[q].op = "delete_deployment" /\ req[q].pc = "done"
        /\ req[q].result = HTTP_204_NO_CONTENT
        /\ req[r].op = "delete_deployment" /\ req[r].pc = "done"
        /\ req[r].id = req[q].id
        /\ req[r].result = HTTP_404_NOT_FOUND
        /\ Removed(req[r].id)

(* ---- C9 ---------------------------------------------------------------- *)
\* C9 (rejections have no side effects): the step with which create_deployment or
\* delete_deployment answers 404, 403 or 400 changes neither store nor cluster, and
\* the request has by then written nothing and called Helm not at all.
C9_Step ==
    \A r \in Slots :
        (/\ Steps(r) /\ req'[r].pc = "done"
         /\ req'[r].op \in {"create_deployment", "delete_deployment"}
         /\ req'[r].result \in {HTTP_404_NOT_FOUND, HTTP_403_FORBIDDEN,
                                HTTP_400_BAD_REQUEST}) =>
            /\ db' = db
            /\ releases' = releases
            /\ ~req'[r].wrote
            /\ req'[r].helm = "none"
            /\ req[r].pc \notin {"cd_helm", "cd_update", "cd_rollback", "dd_helm",
                                 "dd_delete"}
C9_RejectedBeforeEffects == [][C9_Step]_vars

\* the owner's create_deployment for a version that is not deployable got 400
C9_Witness ==
    \E r \in Slots :
        /\ req[r].op = "create_deployment" /\ req[r].pc = "done"
        /\ req[r].result = HTTP_400_BAD_REQUEST
        /\ ~req[r].wrote /\ req[r].helm = "none"

(* ---- C10 --------------------------------------------------------------- *)
\* C10 (NotFound versus Forbidden): a finished request for an id that is not in the
\* store answered 404; for an existing model of another user 404; for an existing
\* version or deployment of another user's model 403, whatever the version's status.
C10_NotFoundForbidden ==
    \A r \in Slots :
        Finished(req[r]) =>
            /\ (req[r].op \in ModelIdOps) =>
                   /\ (/\ req[r].id \notin DOMAIN models
                       /\ ~(req[r].op = "delete_model"
                            /\ req[r].result = HTTP_204_NO_CONTENT)) =>
                          req[r].result = HTTP_404_NOT_FOUND
                   /\ NonOwner(req[r]) => req[r].result = HTTP_404_NOT_FOUND
            /\ (req[r].op \in VersionIdOps) =>
                   /\ req[r].id \notin DOMAIN versions => req[r].result = HTTP_404_NOT_FOUND
                   /\ NonOwner(req[r]) => req[r].result = HTTP_403_FORBIDDEN
            /\ (req[r].op \in DeploymentIdOps) =>
                   /\ (/\ req[r].id \notin DOMAIN deployments
                       /\ ~(req[r].op = "delete_deployment"
                            /\ req[r].result = HTTP_204_NO_CONTENT)) =>
                          req[r].result = HTTP_404_NOT_FOUND
                   /\ NonOwner(req[r]) => req[r].result = HTTP_403_FORBIDDEN

\* a user who does not own the model asked to deploy a version that is not READY
\* and got 403
C10_Witness ==
    \E r \in Slots :
        /\ req[r].op = "create_deployment" /\ Finished(req[r])
        /\ NonOwner(req[r])
        /\ versions[req[r].id].status # READY
        /\ req[r].result = HTTP_403_FORBIDDEN

(* ---- C11 --------------------------------------------------------------- *)
\* the route of a deployment as the specification writes it:
\* http://{route_host}:{fixed_node_port}{route_base_path}/{deployment_id}
RouteUrl(deployment_id) ==
    "http://localhost:30080/api/v1/predict/" \o ToString(deployment_id)

cluster == <<releases, namespaces, quotas, policies>>

\* the steps of setup_user_namespace
SetupSteps == {"ns_check", "ns_create", "quota", "policy"}

\* C12 (idempotent tenant setup): a setup step whose object already exists, also
\* when it was created by another caller after this caller's existence check (409),
\* leaves the cluster unchanged and raises nothing, provided the API answers at all;
\* and every step of a setup call for a tenant that is completely set up leaves the
\* cluster unchanged, so n calls end in the state one call ends in.
C12_Step ==
    \A r \in Slots :
        LET ns == Namespace(req[r].id)
            answered == req'[r].api # HTTP_500_INTERNAL_SERVER_ERROR
        IN  /\ (req[r].pc = "ns_check" /\ Steps(r) /\ ns \in namespaces /\ answered) =>
                   req'[r].pc = "quota" /\ cluster' = cluster
            /\ (req[r].pc = "ns_create" /\ Steps(r) /\ ns \in namespaces /\ answered) =>
                   /\ req'[r].api = HTTP_409_CONFLICT
                   /\ req'[r].pc = "quota" /\ cluster' = cluster
            /\ (req[r].pc = "quota" /\ Steps(r) /\ ns \in quotas /\ answered) =>
                   req'[r].pc = "policy" /\ cluster' = cluster
            /\ (req[r].pc = "policy" /\ Steps(r) /\ ns \in policies /\ answered) =>
                   /\ req'[r].pc = "done" /\ req'[r].st = "returned"
                   /\ cluster' = cluster
            /\ (/\ req[r].pc \in SetupSteps /\ Steps(r)
                /\ ns \in namespaces /\ ns \in quotas /\ ns \in policies) =>
                   cluster' = cluster
C12_IdempotentSetup == [][C12_Step]_vars

\* a setup call saw no namespace, another caller created it, and the creation of
\* this caller was answered 409 and went on to the quota of a tenant already set up
C12_Witness ==
    \E r \in Slots :
        /\ req[r].pc = "quota" /\ req[r].api = HTTP_409_CONFLICT
        /\ Namespace(req[r].id) \in quotas
        /\ Namespace(req[r].id) \in policies

(* ---- C13 --------------------------------------------------------------- *)
\* C13 (tenant teardown): delete_namespace on a namespace that is absent returns and
\* changes nothing; on a namespace that exists it returns with the namespace, its
\* quota, its policy and its releases gone and every other namespace untouched; an
\* API error other than not-found is raised and leaves the cluster as it was.
C13_Step ==
    \A r \in Slots :
        (req[r].pc = "done" /\ Steps(r) /\ req'[r].op = "delete_namespace") =>
            LET ns == Namespace(req'[r].id)
                answered == req'[r].api # HTTP_500_INTERNAL_SERVER_ERROR
            IN  /\ (ns \notin namespaces /\ answered) =>
                       /\ req'[r].api = HTTP_404_NOT_FOUND
                       /\ req'[r].st = "returned"
                       /\ cluster' = cluster
                /\ (ns \in namespaces /\ answered) =>
                       /\ req'[r].st = "returned"
                       /\ namespaces' = namespaces \ {ns}
                       /\ quotas' = quotas \ {ns}
                       /\ policies' = policies \ {ns}
                       /\ releases' = {x \in releases : x[1] # ns}
                /\ ~answered =>
                       req'[r].st = "raised" /\ cluster' = cluster
C13_Teardown == [][C13_Step]_vars

\* one call removed a namespace that existed, and another call for the same
\* namespace was answered 404 and returned
C13_Witness ==
    \E r, q \in Slots :
        /\ req[q].op = "delete_namespace" /\ req[q].api = HTTP_200_OK
        /\ req[r].op = "delete_namespace" /\ req[r].api = HTTP_404_NOT_FOUND
        /\ req[r].id = req[q].id
        /\ req[r].st = "returned"
        /\ Namespace(req[r].id) \notin namespaces

(* ---- C14 --------------------------------------------------------------- *)
\* C14 (registration survives provisioning failure): once create_user has inserted
\* the user, no step of its tenant setup (client construction, namespace, quota,
\* policy) touches the users table, and however the setup ends the request answers
\* 201 with the user; no step of any request removes or alters a user row.
C14_Step ==
    /\ \A u \in DOMAIN users : u \in DOMAIN users' /\ users'[u] = users[u]
    /\ \A r \in Slots :
           (/\ req[r].op = "register" /\ Steps(r)
            /\ req[r].pc \in {"k8s_client"} \cup SetupSteps) =>
               /\ users' = users
               /\ req[r].id \in DOMAIN users
               /\ req'[r].pc = "done" =>
                      /\ req'[r].result = HTTP_201_CREATED
                      /\ <<"user", req[r].id>> \in req'[r].data
C14_RegistrationSurvives == [][C14_Step]_vars

\* a registration answered 201 although its tenant setup raised, and the user is
\* in the table
C14_Witness ==
    \E r \in Slots :
        /\ req[r].op = "register" /\ req[r].pc = "done"
        /\ req[r].st = "raised"
        /\ req[r].result = HTTP_201_CREATED
        /\ req[r].id \in DOMAIN users

(* ---- C15 --------------------------------------------------------------- *)
\* C15 (provisioner remove): undeploy_model returns for exit 0; for a non-zero exit
\* it returns only when the release was not there, and raises otherwise; it raises
\* at a timeout; and helm never exits 0 for a release that is not there.
C15_Step ==
    \A r \in Slots :
        (req[r].pc = "dd_helm" /\ Steps(r)) =>
            LET present == <<Namespace(req[r].user), req[r].dep.k8s_service_name>>
                               \in releases
                returned == req'[r].st # "raised"
            IN  /\ req'[r].api = 0 => returned
                /\ req'[r].api = -1 => ~returned
                /\ (req'[r].api = 1 /\ returned) => ~present
                /\ ~present => req'[r].api # 0
C15_RemoveNotFoundOnly == [][C15_Step]_vars

(* ---- C16 --------------------------------------------------------------- *)
\* C16 (provisioner apply): deploy_model returns a url exactly when the chart is on
\* disk and the command it ran exited 0; with the chart missing it runs no command,
\* changes nothing in the cluster and raises; a non-zero exit and a timeout are
\* raised and return no url.
C16_Step ==
    \A r \in Slots :
        (req[r].pc = "cd_helm" /\ Steps(r) /\ req'[r].helm = "apply") =>
            LET returned == req'[r].pc = "cd_update" IN
            /\ req'[r].pc \in {"cd_update", "cd_rollback"}
            /\ returned <=> req'[r].url # NULL
            /\ returned <=> (chartExists /\ req'[r].cmd /\ req'[r].api = 0)
            /\ returned =>
                   <<Namespace(req[r].user), req[r].dep.k8s_service_name>> \in releases'
            /\ ~chartExists => ~req'[r].cmd /\ cluster' = cluster
C16_Apply == [][C16_Step]_vars

\* deploy_model was called with the chart missing: no command was run, and the
\* request is on its way to the rollback
C16_Witness ==
    \E r \in Slots :
        /\ req[r].op = "create_deployment" /\ req[r].pc = "cd_rollback"
        /\ req[r].helm = "apply"
        /\ ~req[r].cmd
        /\ ~chartExists

(* ---- C17 --------------------------------------------------------------- *)
\* every version has its model and every deployment has its version
ReferentialIntegrity ==
    /\ \A v \in DOMAIN versions : versions[v].model_id \in DOMAIN models
    /\ \A d \in DOMAIN deployments : deployments[d].version_id \in DOMAIN versions

\* C17 (referential integrity and cascade): after every step of interleaved
\* create_version, create_deployment, delete_deployment and delete_model requests
\* every version has its model and every deployment has its version; the delete of
\* delete_model removes the model, every version of it and every deployment of
\* those versions, and nothing else.
C17_Step ==
    /\ ReferentialIntegrity'
    /\ \A r \in Slots :
           (req[r].pc = "dm_delete" /\ Steps(r)) =>
               /\ req[r].id \notin DOMAIN models'
               /\ \A v \in DOMAIN versions :
                      v \in DOMAIN versions' <=> versions[v].model_id # req[r].id
               /\ \A d \in DOMAIN deployments :
                      d \in DOMAIN deployments' <=>
                          versions[deployments[d].version_id].model_id # req[r].id
               /\ \A m \in DOMAIN models : m # req[r].id => m \in DOMAIN models'
C17_Cascade == [][C17_Step]_vars

\* delete_model has removed the model while a create_deployment was between its
\* insert and its apply: the row that request inserted went with the cascade
C17_Witness ==
    \E r, q \in Slots :
        /\ req[r].op = "delete_model" /\ req[r].pc = "done"
        /\ req[r].result = HTTP_204_NO_CONTENT
        /\ req[q].op = "create_deployment" /\ req[q].pc = "cd_helm"
        /\ req[q].dep.id \notin DOMAIN deployments
        /\ models = <<>> /\ versions = <<>>

(* ---- C18 --------------------------------------------------------------- *)
Crashed(q) == q.st = "crashed"

RowsNamed(rows, name) == {d \in DOMAIN rows : rows[d].k8s_service_name = name}

\* C18 (commit before apply, write-back or rollback after): the insert of
\* create_deployment commits the row with url NULL and touches no cluster state; the
\* apply step changes no row and is followed by the write-back or the rollback as a
\* later step, which touches no cluster state, the write-back only after a command
\* that exited 0; while a request is at apply its row is there, alone under
\* its name and with url NULL, unless another request's delete removes it, and a
\* crash changes no row; a request that responds leaves no row of its own with url
\* NULL.
C18_Step ==
    \A r \in Slots :
        /\ (req[r].pc = "cd_insert" /\ req'[r].pc = "cd_helm") =>
               /\ req'[r].dep.id \in DOMAIN deployments' \ DOMAIN deployments
               /\ deployments'[req'[r].dep.id].url = NULL
               /\ cluster' = cluster
               /\ req'[r].helm = "none" /\ ~req'[r].cmd
        /\ (req[r].pc = "cd_helm" /\ Steps(r) /\ ~Crashed(req'[r])) =>
               /\ db' = db
               /\ req'[r].pc \in {"cd_update", "cd_rollback"}
               /\ req'[r].pc = "cd_update" =>
                      req'[r].helm = "apply" /\ req'[r].cmd /\ req'[r].api = 0
        /\ (req[r].pc \in {"cd_update", "cd_rollback"} /\ Steps(r)) =>
               cluster' = cluster
        /\ (Steps(r) /\ Crashed(req'[r])) => db' = db
        /\ req'[r].pc = "cd_helm" =>
               \/ /\ req'[r].dep.id \in DOMAIN deployments'
                  /\ deployments'[req'[r].dep.id].url = NULL
                  /\ RowsNamed(deployments', req'[r].dep.k8s_service_name)
                        = {req'[r].dep.id}
               \/ /\ req[r].pc = "cd_helm"
                  /\ req[r].dep.id \notin DOMAIN deployments
               \/ \E q \in Slots \ {r} :
                      /\ req[q].pc = "dd_delete" /\ Steps(q)
                      /\ req[q].dep.id = req'[r].dep.id
        /\ (/\ req'[r].op = "create_deployment" /\ req'[r].pc = "done"
            /\ ~Crashed(req'[r])
            /\ req'[r].dep.id \in DOMAIN deployments') =>
               deployments'[req'[r].dep.id].url # NULL
C19_Step ==
    \A r \in Slots :
        /\ (/\ req[r].pc = "cd_helm" /\ Steps(r)
            /\ Namespace(req[r].user) \notin namespaces) =>
               /\ req'[r].pc = "cd_rollback"
               /\ namespaces' = namespaces
               /\ releases' = releases
        /\ (req[r].op = "create_deployment" /\ Steps(r)) =>
               quotas' = quotas /\ policies' = policies
C20_Step ==
    \A v \in DOMAIN versions :
        (versions[v].status = FAILED /\ v \in DOMAIN versions') =>
            versions'[v].status = FAILED
C20_FailedTerminal == [][C20_Step]_vars

(* ---- C21 --------------------------------------------------------------- *)
\* version v, as the store has it now, may be deployed by user u
DeployableNow(v, u) ==
    /\ v \in DOMAIN versions
    /\ versions[v].status = READY
    /\ versions[v].s3_path # ""
    /\ ModelGetById(versions[v].model_id, u)

\* deployment d, as the store has it now, belongs to a model of user u
OwnedNow(d, u) ==
    /\ d \in DOMAIN deployments
    /\ deployments[d].version_id \in DOMAIN versions
    /\ ModelGetById(versions[deployments[d].version_id].model_id, u)

\* C21 (no time-of-check/time-of-use drift): the step of create_deployment that
\* commits the row and the step that invokes apply are taken only while the version
\* exists, is Ready, has an artifact path and belongs to a model of the caller; the
\* steps of delete_deployment that invoke remove and delete the row are taken only
\* while the deployment belongs to a model of the caller.
C21_Step ==
    \A r \in Slots :
        /\ (req[r].pc = "cd_insert" /\ req'[r].pc = "cd_helm") =>
               DeployableNow(req[r].id, req[r].user)
        /\ (req[r].pc = "cd_helm" /\ req'[r].cmd) =>
               DeployableNow(req[r].id, req[r].user)
        /\ (req[r].pc = "dd_helm" /\ Steps(r)) => OwnedNow(req[r].id, req[r].user)
        /\ (req[r].pc = "dd_delete" /\ Steps(r) /\ deployments' # deployments) =>
               OwnedNow(req[r].id, req[r].user)
C21_NoDrift == [][C21_Step]_vars

(* ---- C22 --------------------------------------------------------------- *)
\* C22 (remove targets what apply created): the remove step of delete_deployment is
\* the request's only provisioner call and is made with the namespace of the caller,
\* who owns the model, and the k8s_service_name stored on the row; a delete_deployment
\* that ends with 204 has made exactly one call; and the arguments are those the
\* create_deployment request that inserted the row handed to apply.
C22_Step ==
    \A r \in Slots :
        /\ (req[r].pc = "dd_helm" /\ Steps(r)) =>
               /\ req'[r].helm = "remove"
               /\ req'[r].calls = 1 /\ req'[r].cmds = 1
               /\ req'[r].args = <<Namespace(req[r].user), req[r].dep.k8s_service_name>>
               /\ req[r].id \in DOMAIN deployments =>
                      /\ req'[r].args[2] = deployments[req[r].id].k8s_service_name
                      /\ req'[r].args[1] =
                            Namespace(models[TargetModel(req[r])].user_id)
        /\ (/\ req'[r].op = "delete_deployment" /\ req'[r].pc = "done"
            /\ req'[r].result = HTTP_204_NO_CONTENT) => req'[r].calls = 1
        /\ \A q \in Slots :
               (/\ req'[r].op = "delete_deployment" /\ req'[r].calls >= 1
                /\ req'[q].op = "create_deployment" /\ req'[q].calls >= 1
                /\ req'[q].dep.id = req'[r].id) =>
                   req'[r].args = req'[q].args
C22_RemoveArgs == [][C22_Step]_vars

\* a deployment was created (201) at one second and deleted (204) by its owner at a
\* later one, with one remove call carrying the arguments of the apply
C22_Witness ==
    \E r, q \in Slots :
        /\ req[r].op = "delete_deployment" /\ req[r].pc = "done"
        /\ req[r].result = HTTP_204_NO_CONTENT /\ req[r].calls = 1
        /\ req[q].op = "create_deployment" /\ req[q].pc = "done"
        /\ req[q].result = HTTP_201_CREATED /\ req[q].dep.id = req[r].id
        /\ req[q].args = req[r].args
        /\ req[r].args[2] # ServiceName(req[r].dep.version_id, now)

(* ---- C23 --------------------------------------------------------------- *)
\* C23 (status frame): a new version row has status Building; the status of an
\* existing version changes only in the commit of an update_version_status request
\* of the owner of its model, to the status that request carries; the commit of
\* update_version_s3_path sets s3_path and leaves the status; no step of
\* create_deployment or delete_deployment changes a version.
C23_Step ==
    /\ \A v \in DOMAIN versions' \ DOMAIN versions : versions'[v].status = BUILDING
    /\ \A v \in DOMAIN versions \cap DOMAIN versions' :
           versions'[v].status # versions[v].status =>
               \E r \in Slots :
                   /\ req[r].op = "update_version_status" /\ req[r].pc = "us_commit"
                   /\ Steps(r) /\ req[r].id = v
                   /\ ModelGetById(versions[v].model_id, req[r].user)
                   /\ versions'[v].status = req[r].st
    /\ \A r \in Slots :
           /\ (/\ req[r].op = "update_version_s3_path" /\ Steps(r)
               /\ versions' # versions) =>
                  versions' = [versions EXCEPT ![req[r].id].s3_path = req[r].s3]
           /\ (/\ req[r].op \in {"create_deployment", "delete_deployment"}
               /\ Steps(r)) => versions' = versions
C23_StatusFrame == [][C23_Step]_vars

\* an upload's path update has finished on a version that is Ready: the path is the
\* new one and the status is still Ready
C23_Witness ==
    \E r \in Slots :
        /\ req[r].op = "update_version_s3_path" /\ req[r].pc = "done"
        /\ req[r].result = HTTP_200_OK /\ req[r].wrote
        /\ req[r].id \in DOMAIN versions
        /\ versions[req[r].id].status = READY
        /\ versions[req[r].id].s3_path # ""

(* ---- C24 --------------------------------------------------------------- *)
\* the API refused the call of the step that request q has just taken from pc
Refused(pc, q) ==
    IF pc = "ns_check" THEN q.api \notin {HTTP_200_OK, HTTP_404_NOT_FOUND}
    ELSE q.api \notin {HTTP_201_CREATED, HTTP_409_CONFLICT}

\* C24 (order and propagation of tenant setup): the namespace steps touch only
\* namespaces and lead to the quota step, the quota step touches only quotas and
\* leads to the policy step, the policy step touches only policies and ends the
\* call; a step the API refuses ends the call as raised and changes nothing, so no
\* later step runs; the quota step is reached only with the namespace present and
\* the policy step only with namespace and quota present; and a call that returns,
\* whatever earlier failed calls left behind, ends with all three present.
C24_Step ==
    \A r \in Slots :
        LET ns == Namespace(req[r].id) IN
        /\ (req[r].pc \in {"ns_check", "ns_create"} /\ Steps(r)) =>
               /\ quotas' = quotas /\ policies' = policies
               /\ req'[r].pc \in {"ns_create", "quota", "done"}
        /\ (req[r].pc = "quota" /\ Steps(r)) =>
               /\ namespaces' = namespaces /\ policies' = policies
               /\ req'[r].pc \in {"policy", "done"}
        /\ (req[r].pc = "policy" /\ Steps(r)) =>
               /\ namespaces' = namespaces /\ quotas' = quotas
               /\ req'[r].pc = "done"
        /\ (req[r].pc \in SetupSteps /\ Steps(r)) =>
               IF Refused(req[r].pc, req'[r])
               THEN /\ req'[r].pc = "done" /\ req'[r].st = "raised"
                    /\ cluster' = cluster
               ELSE req'[r].st # "raised"
        /\ req'[r].pc = "quota" => ns \in namespaces'
        /\ req'[r].pc = "policy" => ns \in namespaces' /\ ns \in quotas'
        /\ (req'[r].pc = "done" /\ req'[r].st = "returned") =>
               ns \in namespaces' /\ ns \in quotas' /\ ns \in policies'
C24_SetupOrder == [][C24_Step]_vars

\* a setup call for a user was refused by the API and ended as raised, and a setup
\* call for the same user returned after creating the policy
C24_Witness ==
    \E r, q \in Slots :
        /\ req[q].op = "setup_user_namespace" /\ req[q].pc = "done"
        /\ req[q].st = "raised" /\ req[q].api = HTTP_500_INTERNAL_SERVER_ERROR
        /\ req[r].op = "setup_user_namespace" /\ req[r].pc = "done"
        /\ req[r].st = "returned" /\ req[r].api = HTTP_201_CREATED
        /\ req[r].id = req[q].id
        /\ Namespace(req[r].id) \in namespaces \cap quotas \cap policies

(* ---- C25 --------------------------------------------------------------- *)
\* C25 (no retry): a request makes at most one provisioner call and at most one
\* external command, a create_deployment only apply and a delete_deployment only
\* remove; when the command of an apply exits non-zero or is killed at the timeout,
\* the request has run that one command and is in the rollback.
C25_NoRetry ==
    \A r \in Slots :
        /\ req[r].calls \in {0, 1}
        /\ req[r].cmds \in {0, 1} /\ req[r].cmds <= req[r].calls
        /\ req[r].op = "create_deployment" => req[r].helm \in {"none", "apply"}
        /\ req[r].op = "delete_deployment" => req[r].helm \in {"none", "remove"}
        /\ (/\ req[r].op = "create_deployment" /\ req[r].cmd
            /\ req[r].api # 0 /\ req[r].pc # "done") =>
               req[r].pc = "cd_rollback" /\ req[r].cmds = 1

\* the command of an apply was killed at the timeout and the request, having run it
\* once, has answered 500
C25_Witness ==
    \E r \in Slots :
        /\ req[r].op = "create_deployment" /\ req[r].pc = "done"
        /\ req[r].result = HTTP_500_INTERNAL_SERVER_ERROR
        /\ req[r].helm = "apply" /\ req[r].api = -1
        /\ req[r].calls = 1 /\ req[r].cmds = 1

(* ---- C26 --------------------------------------------------------------- *)
\* C26 (no workload after a rollback): when a create_deployment request that ran its
\* install command ends with the rollback, the release it applied is not installed,
\* unless a Deployment row carries that name.
C26_Step ==
    \A r \in Slots :
        (/\ req[r].pc = "cd_rollback" /\ req'[r].pc = "done"
         /\ req[r].cmd
         /\ RowsNamed(deployments', req[r].dep.k8s_service_name) = {}) =>
            req[r].args \notin releases'
RowReleases ==
    {<<Namespace(models[versions[deployments[d].version_id].model_id].user_id),
       deployments[d].k8s_service_name>> : d \in DOMAIN deployments}

\* C27 (database and cluster converge): the installed releases are those of the
\* Deployment rows; the commit of delete_model, which removes the rows of the
\* model's deployments, keeps it so when no other request is in flight: no release
\* of a removed row stays installed.
C27_Step ==
    \A r \in Slots :
        (/\ req[r].pc = "dm_delete" /\ Steps(r)
         /\ \A q \in Slots \ {r} : req[q].pc = "done"
         /\ releases = RowReleases) =>
            /\ releases' = RowReleases'
            /\ \A d \in DOMAIN deployments \ DOMAIN deployments' :
                   <<Namespace(req[r].user), deployments[d].k8s_service_name>>
                       \notin releases'
C30_Step ==
    \A r \in Slots :
        (req[r].pc = "cd_insert" /\ Steps(r)) =>
            LET name == ServiceName(req[r].id, now) IN
            IF RowsNamed(deployments, name) # {}
            THEN /\ req'[r].pc = "done"
                 /\ req'[r].result = HTTP_500_INTERNAL_SERVER_ERROR
                 /\ req'[r].helm = "none" /\ req'[r].calls = 0
                 /\ req'[r].dep.id = 0
                 /\ db' = db /\ seqs' = seqs
                 /\ cluster' = cluster
            ELSE req[r].id \in DOMAIN versions =>
                     /\ req'[r].pc = "cd_helm"
                     /\ RowsNamed(deployments', name) = {req'[r].dep.id}
                     /\ req'[r].dep.id \notin DOMAIN deployments
C30_DuplicateName == [][C30_Step]_vars

\* a create_deployment failed on the name of a row that is still there with its url
\* and its release, and a create_deployment in the next second has succeeded
C30_Witness ==
    \E r, q \in Slots :
        /\ req[r].op = "create_deployment" /\ req[r].pc = "done"
        /\ req[r].result = HTTP_500_INTERNAL_SERVER_ERROR
        /\ req[r].dep.id = 0 /\ req[r].calls = 0
        /\ req[q].op = "create_deployment" /\ req[q].pc = "done"
        /\ req[q].result = HTTP_201_CREATED /\ req[q].dep.id = 2
        /\ DOMAIN deployments = {1, 2}
        /\ deployments[1].k8s_service_name = ServiceName(req[r].id, 0)
        /\ deployments[2].k8s_service_name = ServiceName(req[r].id, 1)
        /\ deployments[1].url # NULL
        /\ <<Namespace(req[r].user), deployments[1].k8s_service_name>> \in releases

====
